---- MODULE Spec2Model ----
(***************************************************************************)
(* Model of the oneshot channel of src/src/lib.rs: one heap control block  *)
(* (state word, message slot, waker slot) shared by a Sender and a         *)
(* Receiver.  Every access to the control block is one step, so that all   *)
(* interleavings of the two endpoints are explored.                        *)
(***************************************************************************)
EXTENDS Integers, Sequences, FiniteSets, TLC

\* ---- states::*  (lib.rs 711-724) ----
EMPTY == 0
MESSAGE == 1
RECEIVING == 2
DISCONNECTED == 3

\* ---- bounds of the exploration ----
\* by-reference receive operations the consumer may call before recv / drop
MaxOps == 4
\* payload values 1..MaxVal
MaxVal == 2
\* async task contexts 1..MaxTasks a poll may be called with
MaxTasks == 2

Values == 1..MaxVal
Tasks == 1..MaxTasks

VARIABLES
    state,      \* Channel::state, the atomic state word
    message,    \* Channel::message slot: [st, val]
    waker,      \* Channel::waker slot: [st, w]
    allocated,  \* TRUE while the Box<Channel> has not been deallocated
    spc,        \* sender: remaining steps of the running operation
    sop,        \* sender: "none" (alive, idle), "send", "drop", "done", "crashed"
    sobs,       \* sender: the previous state its swap returned ({} before)
    sw,         \* sender: the ReceiverWaker returned by take_waker
    sres,       \* sender: result of send ("none", "Ok", "Err")
    err,        \* SendError: "none", "held", "dropped", "extracted"
    errval,     \* value returned by SendError::into_value (0 = none)
    sent,       \* the value passed to send (0 = none)
    rpc,        \* receiver: remaining steps of the running operation
    rop,        \* receiver: operation running, "idle", "gone" or "crashed"
    rcx,        \* receiver: task context of the running poll (0 = none)
    rmsg,       \* receiver: message moved out by take_message (0 = none)
    rres,       \* receiver: what the running operation returns when its steps end
    token,      \* park token of the receiver's thread
    wgen,       \* number of ReceiverWakers created so far
    nops,       \* number of by-reference receive operations started
    hist,       \* observations kept for the properties (record)
    ub          \* undefined-behaviour events that have happened (set)

chan == <<state, message, waker, allocated>>
sender == <<spc, sop, sobs, sw, sres, err, errval, sent>>
receiver == <<rpc, rop, rcx, rmsg, rres, nops>>
vars == <<state, message, waker, allocated, spc, sop, sobs, sw, sres, err,
          errval, sent, rpc, rop, rcx, rmsg, rres, token, wgen, nops, hist, ub>>

\* ---- ReceiverWaker (lib.rs 870-903) ----
NoWaker == [kind |-> "none", task |-> 0, gen |-> 0]
\* what a read of freed or uninitialized memory may yield
Garbage == [kind |-> "garbage", task |-> 0, gen |-> 0]

\* ReceiverWaker::current_thread
current_thread(g) == [kind |-> "Thread", task |-> 0, gen |-> g]
\* ReceiverWaker::task_waker
task_waker(cx, g) == [kind |-> "Task", task |-> cx, gen |-> g]

\* ---- Channel::new (lib.rs 740-746) ----
ChannelNew ==
    /\ state = EMPTY
    /\ message = [st |-> "uninit", val |-> 0]
    /\ waker = [st |-> "uninit", w |-> NoWaker]
    /\ allocated = TRUE

HistInit ==
    [ delivered |-> 0,        \* receive calls that returned a message
      frees |-> 0,            \* dealloc calls executed
      msgDrops |-> 0,         \* payload dropped in place / by the SendError
      woken |-> {},           \* wakers the sender invoked
      lastOp |-> "none",      \* last receive operation that returned
      lastRes |-> "none",     \* and its result
      lastVal |-> 0,          \* and the message it returned
      afterDrop |-> FALSE,    \* running receive began after the sender's drop
      lastAfterDrop |-> FALSE,   \* ... and so did the last one that returned
      lastAfterDeliv |-> FALSE,  \* the last one began after a delivery
      withdrew |-> {},        \* running timed receive: state its swap(EMPTY) saw
      lastWithdrew |-> {},    \* ... and of the last one that returned
      polled |-> FALSE,       \* Future::poll has been called on the receiver
      target |-> NoWaker,     \* waker installed when the sender's swap saw RECEIVING
      wakes |-> 0,            \* unpark calls the sender made
      ssteps |-> 0,           \* steps send or Sender's drop has taken
      sfrees |-> 0,           \* dealloc calls of Sender's drop
      startState |-> {},      \* state the running receive call loaded first
      reparked |-> FALSE,     \* the running call woke in RECEIVING and went on waiting
      lastReparked |-> FALSE, \* ... and so did the last one that returned
      lastStart |-> {},       \* ... and of the last one that returned
      rdropSaw |-> {},        \* state the swap of Receiver's drop observed
      rdropWaker |-> [st |-> "uninit", w |-> NoWaker],  \* waker slot at that swap
      sendAfterRdrop |-> FALSE,  \* send's swap came after the swap of Receiver's drop
      seq |-> "none",         \* result the idle receiver last got when send began
      nextAfter |-> "none" ]  \* the receive call that follows such a send

\* channel() (lib.rs 195-216)
Init ==
    /\ ChannelNew
    /\ spc = <<>> /\ sop = "none" /\ sobs = {} /\ sw = NoWaker
    /\ sres = "none" /\ err = "none" /\ errval = 0 /\ sent = 0
    /\ rpc = <<>> /\ rop = "idle" /\ rcx = 0 /\ rmsg = 0 /\ rres = "none"
    /\ token = FALSE /\ wgen = 0 /\ nops = 0
    /\ hist = HistInit
    /\ ub = {}

\* ---- accesses to the control block ----
\* an access through channel_ptr after dealloc is a use after free
Access(tags) ==
    ub' = ub \cup tags \cup (IF allocated THEN {} ELSE {"use_after_free"})

\* a send that leaves the payload slot unwritten
write_message_skipped(v) == [st |-> "uninit", val |-> 0]

\* Channel::write_message (lib.rs 795-797)
write_message(v) == [st |-> "init", val |-> v]

\* Channel::take_message (lib.rs 800-810): ptr::read(..).assume_init()
take_message == [slot |-> [message EXCEPT !.st = "moved"],
                 val |-> message.val,
                 tags |-> IF message.st = "init" THEN {}
                          ELSE {"read_uninit_message"}]

\* Channel::drop_message (lib.rs 813-815): assume_init_drop()
drop_message == [slot |-> [message EXCEPT !.st = "dropped"],
                 tags |-> IF message.st = "init" THEN {}
                          ELSE {"drop_uninit_message"}]

\* Channel::write_waker (lib.rs 819-821): overwrites without dropping
write_waker(w) == [slot |-> [st |-> "init", w |-> w],
                   tags |-> (IF waker.st = "init"
                             THEN {"live_waker_overwritten"} ELSE {})
                            \cup
                            (IF spc # <<>> /\ Head(spc) = "take_waker"
                             THEN {"waker_data_race"} ELSE {})]

\* Channel::take_waker (lib.rs 824-834): ptr::read(..).assume_init().
\* Reading freed memory or a slot that holds no live waker is undefined: the
\* read yields the stale bits of the slot or garbage.  The read is not atomic
\* (two loads of a 16-byte slot) and not ordered with a write_waker or
\* drop_waker the receiver is about to make or has made since the sender's
\* swap: then it may also yield a mixture of the old and the new waker.
take_waker_values ==
    IF /\ allocated /\ waker.st = "init"
       /\ ~(rpc # <<>> /\ Head(rpc) \in {"write_waker", "drop_waker"})
       /\ "waker_data_race" \notin ub
    THEN {waker.w}
    ELSE {Garbage} \cup (IF waker.w.kind = "none" THEN {} ELSE {waker.w})

take_waker_tags ==
    (IF waker.st = "init" THEN {} ELSE {"read_uninit_waker"})
    \cup
    (IF rpc # <<>> /\ Head(rpc) \in {"write_waker", "drop_waker"}
     THEN {"waker_data_race"} ELSE {})

\* Channel::drop_waker (lib.rs 838-840): assume_init_drop()
drop_waker == [slot |-> [waker EXCEPT !.st = "dropped"],
               tags |-> (IF waker.st = "init" THEN {}
                         ELSE {"drop_uninit_waker"})
                        \cup
                        (IF spc # <<>> /\ Head(spc) = "take_waker"
                         THEN {"waker_data_race"} ELSE {})]

\* dealloc (lib.rs 922-924): drop(Box::from_raw(..))
dealloc_tags == IF allocated THEN {} ELSE {"double_free"}

Freed(h) == [h EXCEPT !.frees = IF @ < 2 THEN @ + 1 ELSE @]

\* one more step of send or of Sender's drop
MaxSteps == 6
Stepped(h) == [h EXCEPT !.ssteps = IF @ < MaxSteps THEN @ + 1 ELSE @]

\* ------------------------------------------------------------------
\* Sender
\* ------------------------------------------------------------------

\* Sender::send, lib.rs 268-277: forget self, write the message
Send(v) ==
    /\ sop = "none"
    /\ sop' = "send" /\ sent' = v
    /\ message' = write_message(v)
    /\ Access({})
    /\ spc' = <<"swap">>
    /\ hist' = [Stepped(hist) EXCEPT !.seq = IF rop = "idle"
                                        /\ hist.lastRes \in {"Timeout", "Pending"}
                                    THEN hist.lastRes ELSE "none"]
    /\ UNCHANGED <<state, waker, allocated, sobs, sw, sres, err, errval,
                   token, wgen>>
    /\ UNCHANGED receiver

\* a send that publishes the message and wakes nobody
send_match_no_wake(prev) ==
    CASE prev \in {EMPTY, RECEIVING} ->
                             [todo |-> <<>>, res |-> "Ok", err |-> "none"]
      [] prev = DISCONNECTED -> [todo |-> <<>>, res |-> "Err", err |-> "held"]
      [] OTHER -> [todo |-> <<>>, res |-> "unreachable", err |-> "none"]

\* a send that wakes the receiver whatever state its swap observed
send_match_always_wakes(prev) ==
    CASE prev \in {EMPTY, RECEIVING} -> [todo |-> <<"take_waker", "unpark">>,
                                         res |-> "none", err |-> "none"]
      [] prev = DISCONNECTED -> [todo |-> <<>>, res |-> "Err", err |-> "held"]
      [] OTHER -> [todo |-> <<>>, res |-> "unreachable", err |-> "none"]

\* a send that reports success to a receiver that is gone
send_match_ok_on_disconnected(prev) ==
    CASE prev = RECEIVING -> [todo |-> <<"take_waker", "unpark">>,
                              res |-> "none", err |-> "none"]
      [] prev \in {EMPTY, DISCONNECTED} ->
                             [todo |-> <<>>, res |-> "Ok", err |-> "none"]
      [] OTHER -> [todo |-> <<>>, res |-> "unreachable", err |-> "none"]

\* the match on the previous state of Sender::send (lib.rs 280-291)
send_match(prev) ==
    CASE prev = EMPTY -> [todo |-> <<>>, res |-> "Ok", err |-> "none"]
      [] prev = RECEIVING -> [todo |-> <<"take_waker", "unpark">>,
                              res |-> "none", err |-> "none"]
      [] prev = DISCONNECTED -> [todo |-> <<>>, res |-> "Err", err |-> "held"]
      [] OTHER -> [todo |-> <<>>, res |-> "unreachable", err |-> "none"]

\* channel.state.swap(MESSAGE, SeqCst) of Sender::send (lib.rs 280)
SendSwap ==
    /\ sop = "send" /\ spc # <<>> /\ Head(spc) = "swap"
    /\ LET m == send_match(state) IN
        /\ state' = MESSAGE
        /\ sobs' = {state}
        /\ spc' = m.todo
        /\ sres' = m.res
        /\ err' = m.err
        /\ sop' = IF m.todo = <<>> THEN "done" ELSE sop
    /\ hist' = [Stepped(hist) EXCEPT
                    !.target = IF state = RECEIVING THEN waker.w ELSE @,
                    !.sendAfterRdrop = (hist.rdropSaw # {})]
    /\ Access(IF allocated THEN {} ELSE {"uaf_state"})
    /\ UNCHANGED <<message, waker, allocated, sw, errval, sent,
                   token, wgen>>
    /\ UNCHANGED receiver

\* the match on the previous state of Sender's drop (lib.rs 301-311)
sender_drop_match(prev) ==
    CASE prev = EMPTY -> [todo |-> <<>>, res |-> "none"]
      [] prev = RECEIVING -> [todo |-> <<"take_waker", "unpark">>, res |-> "none"]
      [] prev = DISCONNECTED -> [todo |-> <<"dealloc">>, res |-> "none"]
      [] OTHER -> [todo |-> <<>>, res |-> "unreachable"]

\* impl Drop for Sender: channel.state.swap(DISCONNECTED, SeqCst) (lib.rs 296-301)
SenderDrop ==
    /\ sop = "none"
    /\ LET m == sender_drop_match(state) IN
        /\ state' = DISCONNECTED
        /\ sobs' = {state}
        /\ spc' = m.todo
        /\ sres' = m.res
        /\ sop' = IF m.todo = <<>> THEN "done" ELSE "drop"
    /\ hist' = [Stepped(hist) EXCEPT
                    !.target = IF state = RECEIVING THEN waker.w ELSE @]
    /\ Access(IF allocated THEN {} ELSE {"uaf_state"})
    /\ UNCHANGED <<message, waker, allocated, sw, err, errval, sent,
                   token, wgen>>
    /\ UNCHANGED receiver

\* a sender that waits for the receiver's running call before it reads the
\* waker
SenderTakeWakerWhenIdle ==
    /\ spc # <<>> /\ Head(spc) = "take_waker"
    /\ rpc = <<>>
    /\ \E w \in take_waker_values : sw' = w
    /\ waker' = [waker EXCEPT !.st = "moved"]
    /\ Access(take_waker_tags)
    /\ spc' = Tail(spc)
    /\ hist' = Stepped(hist)
    /\ UNCHANGED <<state, message, allocated, sop, sobs, sres, err, errval,
                   sent, token, wgen>>
    /\ UNCHANGED receiver

\* unsafe { channel.take_waker() } in send and in drop (lib.rs 285, 305)
SenderTakeWaker ==
    /\ spc # <<>> /\ Head(spc) = "take_waker"
    /\ \E w \in take_waker_values : sw' = w
    /\ waker' = [waker EXCEPT !.st = "moved"]
    /\ Access(take_waker_tags)
    /\ spc' = Tail(spc)
    /\ hist' = Stepped(hist)
    /\ UNCHANGED <<state, message, allocated, sop, sobs, sres, err, errval,
                   sent, token, wgen>>
    /\ UNCHANGED receiver

\* ReceiverWaker::unpark (lib.rs 893-902), then send returns Ok(()) (lib.rs 286).
\* Called on a waker that is no waker (sw = Garbage) it jumps or stores through
\* whatever the slot held: either a wake function runs on the wrong data and
\* the call returns, or the process dies with a fault, nothing is woken and
\* neither endpoint takes another step.
SenderUnpark ==
    /\ spc # <<>> /\ Head(spc) = "unpark"
    /\ \/ /\ token' = IF sw.kind = "Thread" THEN TRUE ELSE token
          /\ hist' = [Stepped(hist) EXCEPT !.woken = @ \cup {sw},
                                  !.wakes = IF @ < 2 THEN @ + 1 ELSE @]
          /\ sres' = IF sop = "send" THEN "Ok" ELSE sres
          /\ sop' = "done"
          /\ UNCHANGED <<rpc, rop>>
       \/ /\ sw = Garbage
          /\ hist' = Stepped(hist)
          /\ sop' = "crashed" /\ rop' = "crashed"
          /\ rpc' = <<>>
          /\ UNCHANGED <<token, sres>>
    /\ spc' = <<>>
    /\ UNCHANGED <<state, message, waker, allocated, sobs, sw, err, errval,
                   sent, wgen, ub>>
    /\ UNCHANGED <<rcx, rmsg, rres, nops>>

\* unsafe { dealloc(self.channel_ptr) } of Sender's drop (lib.rs 307-309)
SenderDealloc ==
    /\ spc # <<>> /\ Head(spc) = "dealloc"
    /\ allocated' = FALSE
    /\ hist' = [Stepped(Freed(hist)) EXCEPT !.sfrees = IF @ < 2 THEN @ + 1 ELSE @]
    /\ ub' = ub \cup dealloc_tags
    /\ spc' = <<>>
    /\ sop' = "done"
    /\ UNCHANGED <<state, message, waker, sobs, sw, sres, err, errval, sent,
                   token, wgen>>
    /\ UNCHANGED receiver

\* SendError's drop: drops the message in place and frees the channel
SendErrorDrop ==
    /\ err = "held"
    /\ err' = "dropped"
    /\ message' = drop_message.slot
    /\ allocated' = FALSE
    /\ hist' = [Freed(hist) EXCEPT !.msgDrops = IF @ < 2 THEN @ + 1 ELSE @]
    /\ ub' = ub \cup drop_message.tags \cup dealloc_tags
    /\ UNCHANGED <<state, waker, spc, sop, sobs, sw, sres, errval, sent,
                   token, wgen>>
    /\ UNCHANGED receiver

\* SendError::into_value: moves the message out and frees the channel
SendErrorIntoValue ==
    /\ err = "held"
    /\ err' = "extracted"
    /\ errval' = take_message.val
    /\ message' = take_message.slot
    /\ allocated' = FALSE
    /\ hist' = Freed(hist)
    /\ ub' = ub \cup take_message.tags \cup dealloc_tags
    /\ UNCHANGED <<state, waker, spc, sop, sobs, sw, sres, sent,
                   token, wgen>>
    /\ UNCHANGED receiver

SenderNext ==
    \/ \E v \in Values : Send(v)
    \/ SendSwap
    \/ SenderDrop
    \/ SenderTakeWaker
    \/ SenderUnpark
    \/ SenderDealloc
    \/ SendErrorDrop
    \/ SendErrorIntoValue

\* ------------------------------------------------------------------
\* Receiver: what each function does after reading the state word.
\* todo = the accesses to the control block still to make, in order;
\* res = the value the call returns once they are made.
\* ------------------------------------------------------------------
Ret(r) == [todo |-> <<>>, res |-> r]
Do(t, r) == [todo |-> t, res |-> r]

\* try_recv that takes the message without storing DISCONNECTED
try_recv_no_store(s) ==
    CASE s = EMPTY -> Ret("Empty")
      [] s = MESSAGE -> Do(<<"take_message">>, "Ok")
      [] s = DISCONNECTED -> Ret("Disconnected")
      [] s = RECEIVING -> Ret("Empty")

\* try_recv that frees the channel when it finds the sender gone, as recv does
try_recv_frees_on_disconnected(s) ==
    CASE s = EMPTY -> Ret("Empty")
      [] s = MESSAGE -> Do(<<"store_disconnected", "take_message">>, "Ok")
      [] s = DISCONNECTED -> Do(<<"dealloc">>, "Disconnected")
      [] s = RECEIVING -> Ret("Empty")

\* try_recv that marks the channel disconnected and leaves the message in
\* the slot
try_recv_leaves_message(s) ==
    CASE s = EMPTY -> Ret("Empty")
      [] s = MESSAGE -> Do(<<"store_disconnected">>, "Ok")
      [] s = DISCONNECTED -> Ret("Disconnected")
      [] s = RECEIVING -> Ret("Empty")

\* Receiver::try_recv, the match on the loaded state (lib.rs 333-347)
try_recv(s) ==
    CASE s = EMPTY -> Ret("Empty")
      [] s = MESSAGE -> Do(<<"store_disconnected", "take_message">>, "Ok")
      [] s = DISCONNECTED -> Ret("Disconnected")
      [] s = RECEIVING -> Ret("Empty")

\* Receiver::recv, the match on the loaded state (lib.rs 376-443)
recv_load(s) ==
    CASE s = EMPTY -> Do(<<"write_waker", "cas">>, "none")
      [] s = MESSAGE -> Do(<<"take_message", "dealloc">>, "Ok")
      [] s = DISCONNECTED -> Do(<<"dealloc">>, "Disconnected")
      [] s = RECEIVING -> Ret("Panic")

\* Receiver::recv, the match on compare_exchange(EMPTY, RECEIVING) (lib.rs 388-426)
recv_cas(s) ==
    CASE s = EMPTY -> Do(<<"park", "reload">>, "none")
      [] s = MESSAGE -> Do(<<"drop_waker", "take_message", "dealloc">>, "Ok")
      [] s = DISCONNECTED -> Do(<<"drop_waker", "dealloc">>, "Disconnected")
      [] OTHER -> Ret("unreachable")

\* Receiver::recv, the match after thread::park() (lib.rs 393-411)
recv_loop(s) ==
    CASE s = MESSAGE -> Do(<<"take_message", "dealloc">>, "Ok")
      [] s = DISCONNECTED -> Do(<<"dealloc">>, "Disconnected")
      [] s = RECEIVING -> Do(<<"park", "reload">>, "none")
      [] OTHER -> Ret("unreachable")

\* recv_ref that frees the channel after taking the message, as recv does
recv_ref_load_frees(s) ==
    CASE s = EMPTY -> Do(<<"write_waker", "cas">>, "none")
      [] s = MESSAGE -> Do(<<"take_message", "dealloc">>, "Ok")
      [] s = DISCONNECTED -> Ret("Disconnected")
      [] s = RECEIVING -> Ret("Panic")

\* recv_ref that installs its thread waker over the one of a poll
recv_ref_load_rewrites_waker(s) ==
    CASE s \in {EMPTY, RECEIVING} -> Do(<<"write_waker", "cas">>, "none")
      [] s = MESSAGE -> Do(<<"store_disconnected", "take_message">>, "Ok")
      [] s = DISCONNECTED -> Ret("Disconnected")

\* Receiver::recv_ref, the match on the loaded state (lib.rs 461-519)
recv_ref_load(s) ==
    CASE s = EMPTY -> Do(<<"write_waker", "cas">>, "none")
      [] s = MESSAGE -> Do(<<"store_disconnected", "take_message">>, "Ok")
      [] s = DISCONNECTED -> Ret("Disconnected")
      [] s = RECEIVING -> Ret("Panic")

\* Receiver::recv_ref, the match on compare_exchange(EMPTY, RECEIVING) (lib.rs 473-506)
recv_ref_cas(s) ==
    CASE s = EMPTY -> Do(<<"park", "reload">>, "none")
      [] s = MESSAGE ->
            Do(<<"store_disconnected", "drop_waker", "take_message">>, "Ok")
      [] s = DISCONNECTED -> Do(<<"drop_waker">>, "Disconnected")
      [] OTHER -> Ret("unreachable")

\* recv_ref that takes any return of park for the arrival of the message
recv_ref_loop_trusts_wakeup(s) ==
    CASE s \in {MESSAGE, RECEIVING} ->
                        Do(<<"store_disconnected", "take_message">>, "Ok")
      [] s = DISCONNECTED -> Ret("Disconnected")
      [] OTHER -> Ret("unreachable")

\* Receiver::recv_ref, the match after thread::park() (lib.rs 478-493)
recv_ref_loop(s) ==
    CASE s = MESSAGE -> Do(<<"store_disconnected", "take_message">>, "Ok")
      [] s = DISCONNECTED -> Ret("Disconnected")
      [] s = RECEIVING -> Do(<<"park", "reload">>, "none")
      [] OTHER -> Ret("unreachable")

\* Receiver::recv_deadline, the match on the loaded state (lib.rs 562-632)
recv_deadline_load(s) ==
    CASE s = EMPTY -> Do(<<"write_waker", "cas">>, "none")
      [] s = MESSAGE -> Do(<<"store_disconnected", "take_message">>, "Ok")
      [] s = DISCONNECTED -> Ret("Disconnected")
      [] s = RECEIVING -> Ret("Panic")

\* Receiver::recv_deadline, the match on compare_exchange(EMPTY, RECEIVING)
\* (lib.rs 574-619)
recv_deadline_cas(s) ==
    CASE s = EMPTY -> Do(<<"loop">>, "none")
      [] s = MESSAGE ->
            Do(<<"store_disconnected", "drop_waker", "take_message">>, "Ok")
      [] s = DISCONNECTED -> Do(<<"drop_waker">>, "Disconnected")
      [] OTHER -> Ret("unreachable")

\* recv_deadline that reports Timeout whenever the deadline was reached
recv_deadline_loop_timeout_first(s, timed_out) ==
    CASE timed_out /\ s = MESSAGE -> Ret("Timeout")
      [] ~timed_out /\ s = MESSAGE ->
            Do(<<"store_disconnected", "take_message">>, "Ok")
      [] s = DISCONNECTED -> Ret("Disconnected")
      [] s = RECEIVING -> IF timed_out THEN Do(<<"drop_waker">>, "Timeout")
                          ELSE Do(<<"loop">>, "none")
      [] OTHER -> Ret("unreachable")

\* Receiver::recv_deadline, the match on (state, timed_out) in the loop
\* (lib.rs 589-605)
recv_deadline_loop(s, timed_out) ==
    CASE s = MESSAGE -> Do(<<"store_disconnected", "take_message">>, "Ok")
      [] s = DISCONNECTED -> Ret("Disconnected")
      [] s = RECEIVING -> IF timed_out THEN Do(<<"drop_waker">>, "Timeout")
                          ELSE Do(<<"loop">>, "none")
      [] OTHER -> Ret("unreachable")

\* poll that returns the message and leaves the state at MESSAGE
poll_load_no_store(s) ==
    CASE s = EMPTY -> Do(<<"write_waker", "cas">>, "none")
      [] s = RECEIVING -> Do(<<"cas_empty">>, "none")
      [] s = MESSAGE -> Do(<<"take_message">>, "Ok")
      [] s = DISCONNECTED -> Ret("Disconnected")

\* Future::poll, the match on the loaded state (lib.rs 643-678)
poll_load(s) ==
    CASE s = EMPTY -> Do(<<"write_waker", "cas">>, "none")
      [] s = RECEIVING -> Do(<<"cas_empty">>, "none")
      [] s = MESSAGE -> Do(<<"store_disconnected", "take_message">>, "Ok")
      [] s = DISCONNECTED -> Ret("Disconnected")

\* Future::poll, the match on compare_exchange(RECEIVING, EMPTY) (lib.rs 648-668)
poll_cas_empty(s) ==
    CASE s = RECEIVING -> Do(<<"drop_waker", "write_waker", "cas">>, "none")
      [] s = MESSAGE -> Do(<<"store_disconnected", "take_message">>, "Ok")
      [] s = DISCONNECTED -> Ret("Disconnected")
      [] OTHER -> Ret("unreachable")

\* Channel::write_async_waker, the match on compare_exchange(EMPTY, RECEIVING)
\* (lib.rs 847-866)
write_async_waker(s) ==
    CASE s = EMPTY -> Ret("Pending")
      [] s = DISCONNECTED -> Do(<<"drop_waker">>, "Disconnected")
      [] s = MESSAGE ->
            Do(<<"drop_waker", "store_disconnected", "take_message">>, "Ok")
      [] OTHER -> Ret("unreachable")

\* Receiver's drop that frees the channel although the sender is still there
receiver_drop_frees_on_empty(s) ==
    CASE s = EMPTY -> Do(<<"dealloc">>, "dropped")
      [] s = MESSAGE -> Do(<<"drop_message", "dealloc">>, "dropped")
      [] s = RECEIVING -> Do(<<"drop_waker">>, "dropped")
      [] s = DISCONNECTED -> Do(<<"dealloc">>, "dropped")

\* a Receiver drop that drops the payload slot before anything was sent
receiver_drop_drops_unsent(s) ==
    CASE s = EMPTY -> Do(<<"drop_message">>, "dropped")
      [] s = MESSAGE -> Do(<<"drop_message", "dealloc">>, "dropped")
      [] s = RECEIVING -> Do(<<"drop_waker">>, "dropped")
      [] s = DISCONNECTED -> Do(<<"dealloc">>, "dropped")

\* a Receiver drop that frees the channel when it withdraws its waker
receiver_drop_frees_on_receiving(s) ==
    CASE s = EMPTY -> Ret("dropped")
      [] s = MESSAGE -> Do(<<"drop_message", "dealloc">>, "dropped")
      [] s = RECEIVING -> Do(<<"drop_waker", "dealloc">>, "dropped")
      [] s = DISCONNECTED -> Do(<<"dealloc">>, "dropped")

\* impl Drop for Receiver, the match on swap(DISCONNECTED) (lib.rs 688-706)
receiver_drop(s) ==
    CASE s = EMPTY -> Ret("dropped")
      [] s = MESSAGE -> Do(<<"drop_message", "dealloc">>, "dropped")
      [] s = RECEIVING -> Do(<<"drop_waker">>, "dropped")
      [] s = DISCONNECTED -> Do(<<"dealloc">>, "dropped")

\* Receiver::recv_timeout (lib.rs 538-543): checked_add gives Some(deadline)
\* and the call is recv_deadline, or None and it is recv_ref
Impl(op) ==
    CASE op = "recv_timeout" -> "recv_deadline"
      [] op = "recv_timeout_none" -> "recv_ref"
      [] OTHER -> op

\* the match after compare_exchange(EMPTY, RECEIVING) of the running call
cas_match(op, s) ==
    CASE Impl(op) = "recv" -> recv_cas(s)
      [] Impl(op) = "recv_ref" -> recv_ref_cas(s)
      [] Impl(op) = "recv_deadline" -> recv_deadline_cas(s)
      [] Impl(op) = "poll" -> write_async_waker(s)

\* the match after the park of the running call
loop_match(op, s) ==
    CASE Impl(op) = "recv" -> recv_loop(s)
      [] Impl(op) = "recv_ref" -> recv_ref_loop(s)
      [] Impl(op) = "recv_deadline" -> recv_deadline_loop(s, FALSE)

\* ------------------------------------------------------------------
\* Receiver steps
\* ------------------------------------------------------------------

\* a receive call begins: note whether the sender's drop has already run
Begin(h, op) == [h EXCEPT !.afterDrop = (sop = "done" /\ sent = 0),
                          !.withdrew = {},
                          !.polled = (@ \/ op = "poll"),
                          !.startState = {state},
                          !.reparked = FALSE,
                          !.seq = IF sop = "send" THEN "none" ELSE @,
                          !.nextAfter = IF sop = "done" /\ h.seq # "none"
                                           /\ @ = "none"
                                        THEN "run" ELSE @]

\* a receive call returns res (and the message v when res is Ok)
Returned(h, op, res, v) ==
    [h EXCEPT !.lastOp = op,
              !.lastRes = res,
              !.lastVal = IF res = "Ok" THEN v ELSE 0,
              !.delivered = IF res = "Ok" /\ @ < 2 THEN @ + 1 ELSE @,
              !.lastAfterDrop = h.afterDrop,
              !.lastAfterDeliv = (h.delivered >= 1),
              !.afterDrop = FALSE,
              !.lastWithdrew = h.withdrew,
              !.withdrew = {},
              !.lastStart = h.startState,
              !.startState = {},
              !.lastReparked = h.reparked,
              !.reparked = FALSE,
              !.nextAfter = CASE @ = "run" -> "done"
                              [] @ = "done" -> "past"
                              [] OTHER -> @]

\* recv consumes the receiver (mem::forget(self), lib.rs 372) and Drop ends it
Consumes(op) == op \in {"recv", "drop"}

\* the call goes on with m.todo, or returns m.res when nothing is left to do
RStep(op, m, h, v, cx) ==
    IF m.todo = <<>>
    THEN /\ rpc' = <<>>
         /\ rop' = IF Consumes(op) THEN "gone" ELSE "idle"
         /\ rres' = "none" /\ rmsg' = 0 /\ rcx' = 0
         /\ hist' = Returned(h, op, m.res, v)
    ELSE /\ rpc' = m.todo
         /\ rop' = op
         /\ rres' = m.res /\ rmsg' = v /\ rcx' = cx
         /\ hist' = h

Running(label) == rpc # <<>> /\ Head(rpc) = label
Rest == [todo |-> Tail(rpc), res |-> rres]
StateTag == IF allocated THEN {} ELSE {"uaf_state"}

\* a by-reference call starts with channel.state.load(SeqCst)
Start(op, m, cx) ==
    /\ rop = "idle" /\ nops < MaxOps
    /\ nops' = nops + 1
    /\ RStep(op, m, Begin(hist, op), 0, cx)
    /\ Access(StateTag)
    /\ UNCHANGED <<state, message, waker, allocated, token, wgen>>
    /\ UNCHANGED sender

\* Receiver::try_recv (lib.rs 329-333)
TryRecv == Start("try_recv", try_recv(state), 0)

\* Receiver::recv_ref (lib.rs 457-461)
RecvRef == Start("recv_ref", recv_ref_load(state), 0)

\* Receiver::recv_deadline (lib.rs 558-562)
RecvDeadline == Start("recv_deadline", recv_deadline_load(state), 0)

\* Receiver::recv_timeout (lib.rs 538-543)
RecvTimeout(overflow) ==
    IF overflow THEN Start("recv_timeout_none", recv_ref_load(state), 0)
    ELSE Start("recv_timeout", recv_deadline_load(state), 0)

\* Future::poll (lib.rs 640-643)
Poll(cx) == Start("poll", poll_load(state), cx)

\* Receiver::recv (lib.rs 368-376): consumes the receiver
Recv ==
    /\ rop = "idle"
    /\ RStep("recv", recv_load(state), Begin(hist, "recv"), 0, 0)
    /\ Access(StateTag)
    /\ UNCHANGED <<state, message, waker, allocated, token, wgen, nops>>
    /\ UNCHANGED sender

\* impl Drop for Receiver: channel.state.swap(DISCONNECTED, SeqCst) (lib.rs 683-688)
ReceiverDrop ==
    /\ rop = "idle"
    /\ state' = DISCONNECTED
    /\ RStep("drop", receiver_drop(state),
             [Begin(hist, "drop") EXCEPT !.rdropSaw = {state},
                                         !.rdropWaker = waker], 0, 0)
    /\ Access(StateTag)
    /\ UNCHANGED <<message, waker, allocated, token, wgen, nops>>
    /\ UNCHANGED sender

\* channel.write_waker(ReceiverWaker::current_thread()) (lib.rs 386, 471, 572)
\* and self.write_waker(ReceiverWaker::task_waker(cx)) (lib.rs 845)
RWriteWaker ==
    /\ Running("write_waker")
    /\ LET w == IF rop = "poll" THEN task_waker(rcx, wgen + 1)
                ELSE current_thread(wgen + 1) IN
        /\ waker' = write_waker(w).slot
        /\ Access(write_waker(w).tags)
    /\ wgen' = wgen + 1
    /\ RStep(rop, Rest, hist, rmsg, rcx)
    /\ UNCHANGED <<state, message, allocated, token, nops>>
    /\ UNCHANGED sender

\* channel.state.compare_exchange(EMPTY, RECEIVING, SeqCst, SeqCst)
\* (lib.rs 388-390, 473-475, 574-576, 847-849)
RCas ==
    /\ Running("cas")
    /\ state' = IF state = EMPTY THEN RECEIVING ELSE state
    /\ RStep(rop, cas_match(rop, state), hist, rmsg, rcx)
    /\ Access(StateTag)
    /\ UNCHANGED <<message, waker, allocated, token, wgen, nops>>
    /\ UNCHANGED sender

\* thread::park() returns because the token is there (lib.rs 394, 479)
RPark ==
    /\ Running("park")
    /\ token
    /\ token' = FALSE
    /\ RStep(rop, Rest, hist, rmsg, rcx)
    /\ UNCHANGED <<state, message, waker, allocated, wgen, nops, ub>>
    /\ UNCHANGED sender

\* thread::park() returns spuriously
RParkSpurious ==
    /\ Running("park")
    /\ ~token
    /\ RStep(rop, Rest, hist, rmsg, rcx)
    /\ UNCHANGED <<state, message, waker, allocated, token, wgen, nops, ub>>
    /\ UNCHANGED sender

\* channel.state.load(SeqCst) after the park (lib.rs 395, 480, 584)
RReload ==
    /\ Running("reload")
    /\ RStep(rop, loop_match(rop, state),
             [hist EXCEPT !.reparked = (@ \/ state = RECEIVING)], rmsg, rcx)
    /\ Access(StateTag)
    /\ UNCHANGED <<state, message, waker, allocated, token, wgen, nops>>
    /\ UNCHANGED sender

\* recv_deadline before the deadline: thread::park_timeout(timeout) returns
\* (token, timeout or spurious wake-up) (lib.rs 580-584)
RParkTimeout ==
    /\ Running("loop")
    /\ token' = FALSE
    /\ RStep(rop, Do(<<"reload">>, "none"), hist, rmsg, rcx)
    /\ UNCHANGED <<state, message, waker, allocated, wgen, nops, ub>>
    /\ UNCHANGED sender

\* recv_deadline at the deadline: channel.state.swap(EMPTY, SeqCst), timed_out
\* (lib.rs 585-588)
RSwapEmpty ==
    /\ Running("loop")
    /\ state' = EMPTY
    /\ RStep(rop, recv_deadline_loop(state, TRUE),
             [hist EXCEPT !.withdrew = {state}], rmsg, rcx)
    /\ Access(StateTag)
    /\ UNCHANGED <<message, waker, allocated, token, wgen, nops>>
    /\ UNCHANGED sender

\* poll: channel.state.compare_exchange(RECEIVING, EMPTY, SeqCst, SeqCst)
\* (lib.rs 648-650)
RCasEmpty ==
    /\ Running("cas_empty")
    /\ state' = IF state = RECEIVING THEN EMPTY ELSE state
    /\ RStep(rop, poll_cas_empty(state), hist, rmsg, rcx)
    /\ Access(StateTag)
    /\ UNCHANGED <<message, waker, allocated, token, wgen, nops>>
    /\ UNCHANGED sender

\* channel.state.store(DISCONNECTED, SeqCst)
\* (lib.rs 338, 484, 496, 510, 592, 609, 623, 661, 672, 862)
RStoreDisconnected ==
    /\ Running("store_disconnected")
    /\ state' = DISCONNECTED
    /\ RStep(rop, Rest, hist, rmsg, rcx)
    /\ Access(StateTag)
    /\ UNCHANGED <<message, waker, allocated, token, wgen, nops>>
    /\ UNCHANGED sender

\* unsafe { channel.take_message() }
\* (lib.rs 339, 398, 415, 430, 485, 498, 511, 593, 611, 624, 662, 673, 863)
RTakeMessage ==
    /\ Running("take_message")
    /\ message' = take_message.slot
    /\ RStep(rop, Rest, hist, take_message.val, rcx)
    /\ Access(take_message.tags)
    /\ UNCHANGED <<state, waker, allocated, token, wgen, nops>>
    /\ UNCHANGED sender

\* unsafe { channel.drop_waker() }
\* (lib.rs 414, 421, 497, 502, 600, 610, 615, 654, 699, 855, 861).
\* On a freed block, or on a slot that holds no live waker, the drop calls
\* through whatever the slot holds: it returns, or the process dies with a
\* fault and neither endpoint takes another step.
RDropWaker ==
    /\ Running("drop_waker")
    /\ Access(drop_waker.tags)
    /\ \/ /\ waker' = drop_waker.slot
          /\ RStep(rop, Rest, hist, rmsg, rcx)
          /\ UNCHANGED <<spc, sop>>
       \/ /\ ~allocated \/ waker.st # "init"
          /\ rpc' = <<>> /\ rop' = "crashed"
          /\ spc' = <<>> /\ sop' = "crashed"
          /\ UNCHANGED <<waker, rres, rmsg, rcx, hist>>
    /\ UNCHANGED <<state, message, allocated, token, wgen, nops>>
    /\ UNCHANGED <<sobs, sw, sres, err, errval, sent>>

\* unsafe { channel.drop_message() } of Receiver's drop (lib.rs 693)
RDropMessage ==
    /\ Running("drop_message")
    /\ message' = drop_message.slot
    /\ RStep(rop, Rest,
             [hist EXCEPT !.msgDrops = IF @ < 2 THEN @ + 1 ELSE @], rmsg, rcx)
    /\ Access(drop_message.tags)
    /\ UNCHANGED <<state, waker, allocated, token, wgen, nops>>
    /\ UNCHANGED sender

\* unsafe { dealloc(channel_ptr) } (lib.rs 399, 404, 416, 422, 431, 436, 694, 703)
RDealloc ==
    /\ Running("dealloc")
    /\ allocated' = FALSE
    /\ RStep(rop, Rest, Freed(hist), rmsg, rcx)
    /\ ub' = ub \cup dealloc_tags
    /\ UNCHANGED <<state, message, waker, token, wgen, nops>>
    /\ UNCHANGED sender

ReceiverNext ==
    \/ TryRecv
    \/ RecvRef
    \/ RecvDeadline
    \/ \E overflow \in BOOLEAN : RecvTimeout(overflow)
    \/ \E cx \in Tasks : Poll(cx)
    \/ Recv
    \/ ReceiverDrop
    \/ RWriteWaker
    \/ RCas
    \/ RPark
    \/ RParkSpurious
    \/ RReload
    \/ RParkTimeout
    \/ RSwapEmpty
    \/ RCasEmpty
    \/ RStoreDisconnected
    \/ RTakeMessage
    \/ RDropWaker
    \/ RDropMessage
    \/ RDealloc

Next == SenderNext \/ ReceiverNext

Spec == Init /\ [][Next]_vars

\* ---- scheduling: a running call of either endpoint keeps taking steps, a
\* park returns once the token is there, and a deadline is eventually reached;
\* spurious wake-ups and new calls by the client are not forced ----
SenderSteps ==
    SendSwap \/ SenderTakeWaker \/ SenderUnpark \/ SenderDealloc

ReceiverSteps ==
    \/ RWriteWaker \/ RCas \/ RPark \/ RReload \/ RSwapEmpty \/ RCasEmpty
    \/ RStoreDisconnected \/ RTakeMessage \/ RDropWaker \/ RDropMessage
    \/ RDealloc

FairSpec ==
    /\ Spec
    /\ WF_vars(SenderSteps)
    /\ WF_vars(ReceiverSteps)
    /\ SF_vars(RSwapEmpty)

\* ------------------------------------------------------------------
\* Properties
\* ------------------------------------------------------------------
\* both endpoints are gone and no SendError is alive
BothGone == rop = "gone" /\ sop = "done" /\ err # "held"

\* the next step of the sender goes through channel_ptr
SenderPending == spc # <<>> /\ Head(spc) # "unpark"
\* the running receiver call still goes through channel_ptr
ReceiverPending == rpc # <<>>

\* C1: the control block is never freed while an endpoint
\* still has an access to it pending; in particular it is still allocated when
\* the sender, having observed RECEIVING, reads the waker slot.
C1_AllocatedWhileAccessPending ==
    (SenderPending \/ ReceiverPending) => allocated

\* C2: at most one receive call returns a message.
C2_AtMostOnceDelivery == hist.delivered <= 1

\* a receive call that began after the message was delivered has returned
C2_Witness ==
    hist.delivered = 1 /\ hist.lastAfterDeliv /\ hist.lastOp # "drop"

\* C3: dealloc is executed at most once for the channel.
C3_FreedAtMostOnce == hist.frees <= 1 /\ "double_free" \notin ub

\* both endpoints are gone and the block was freed by one of them
C3_Witness == BothGone /\ hist.frees = 1 /\ ~allocated

\* the consuming recv panicked (sync call on a polled receiver): it had
\* forgotten the receiver, whose drop never runs
RecvPanicked == hist.lastOp = "recv" /\ hist.lastRes = "Panic"

\* C4: once both endpoints are gone (and any SendError has been dropped), the
\* receiver's operations having ended with a recv that returned or with the
\* receiver's drop, the control block has been freed.
C4_NoLeak == (BothGone /\ ~RecvPanicked) => ~allocated

\* ways the payload has been disposed of so far
Disposals ==
    hist.delivered + hist.msgDrops + (IF err = "extracted" THEN 1 ELSE 0)

\* C5: a payload passed to send is never disposed of twice, and once both
\* endpoints are gone it has been disposed of exactly once (delivered, dropped
\* in place, or handed back through the SendError).
C5_PayloadDisposedOnce ==
    /\ Disposals <= 1
    /\ (BothGone /\ sent # 0) => Disposals = 1

\* two wakers wake the same thread or task
SameTarget(a, b) == a.kind = b.kind /\ a.task = b.task

\* C6: when the sender's swap (send or drop) found RECEIVING, i.e. a waker
\* installed and not withdrawn, the sender has invoked that waker by the time
\* its operation is over.
C6_NoLostWakeup ==
    (sop = "done" /\ sobs = {RECEIVING})
        => \E w \in hist.woken : SameTarget(w, hist.target)

\* C7: a blocking recv / recv_ref on a receiver never polled asynchronously
\* returns eventually once the sender has sent or been dropped.
C7_BlockingReceiveTerminates ==
    (rop \in {"recv", "recv_ref"} /\ ~hist.polled /\ sop = "done")
        ~> (rop \notin {"recv", "recv_ref"})

\* C8: a receive operation that began after the sender was dropped without
\* sending reports Disconnected.
C8_DisconnectedAfterSenderDrop ==
    (hist.lastAfterDrop /\ hist.lastOp # "drop")
        => hist.lastRes = "Disconnected"

\* C9: a receive operation that began after a receive returned the message
\* returns the disconnected error.
C9_DisconnectAfterDelivery ==
    (hist.lastAfterDeliv /\ hist.lastOp # "drop")
        => hist.lastRes = "Disconnected"

\* a by-reference receive that began after the delivery has returned
C9_Witness ==
    /\ hist.lastAfterDeliv
    /\ hist.lastOp \in {"try_recv", "recv_ref", "recv_deadline", "poll"}
    /\ hist.lastRes = "Disconnected"

Timed(op) == op \in {"recv_deadline", "recv_timeout"}

\* C10: a timed receive that withdraws at its deadline while a send is going
\* on either returns the payload, or returns Timeout and the payload stays in
\* the channel with state MESSAGE; it never returns Timeout after its swap
\* consumed MESSAGE, and the payload is never both delivered and dropped.
C10_TimeoutSendRace ==
    /\ (Timed(hist.lastOp) /\ hist.lastRes = "Timeout")
            => hist.lastWithdrew = {RECEIVING}
    /\ (Timed(hist.lastOp) /\ hist.lastWithdrew = {MESSAGE})
            => (hist.lastRes = "Ok" /\ hist.lastVal = sent)
    /\ (Timed(hist.lastOp) /\ hist.lastRes = "Timeout" /\ rop = "idle"
            /\ sres = "Ok")
            => (state = MESSAGE /\ message = [st |-> "init", val |-> sent])
    /\ hist.delivered + hist.msgDrops <= 1

\* the withdrawing swap met the sender's MESSAGE and the call returned it
C10_Witness ==
    /\ Timed(hist.lastOp)
    /\ hist.lastWithdrew = {MESSAGE}
    /\ hist.lastRes = "Ok"
    /\ sres = "Ok"

\* the send call has returned
SendReturned == sop = "done" /\ sent # 0

\* C11: send returns Err(SendError) exactly when the swap of Receiver's drop
\* came before send's swap, which then observed DISCONNECTED; having observed
\* EMPTY or RECEIVING it returns Ok(()).  On the error path the sender has
\* invoked no waker and has not freed the block, which stays allocated for
\* as long as the SendError holds it.
C11_SendErrorIffReceiverDropped ==
    SendReturned =>
        /\ sres \in {"Ok", "Err"}
        /\ (sres = "Err") <=> hist.sendAfterRdrop
        /\ (sres = "Err") <=> (sobs = {DISCONNECTED})
        /\ (sres = "Ok") <=> (sobs \subseteq {EMPTY, RECEIVING})
        /\ sres = "Err" =>
              /\ hist.wakes = 0 /\ hist.woken = {} /\ sw = NoWaker
              /\ err # "none"
              /\ err = "held" => (allocated /\ hist.frees = 0)

C11_Witness ==
    /\ SendReturned /\ sres = "Err" /\ err = "held"
    /\ hist.rdropSaw = {RECEIVING} /\ rop = "gone"

\* C12: when send(x) failed with a SendError, the value into_value moves out
\* of that error is x, the value send wrote to the payload slot, read from a
\* slot that still holds it.
C12_SendErrorRoundTrip ==
    err = "extracted" =>
        /\ errval = sent
        /\ sent \in Values
        /\ "read_uninit_message" \notin ub

C12_Witness ==
    /\ err = "extracted" /\ sres = "Err" /\ errval = MaxVal
    /\ hist.polled

Blocking ==
    {"recv", "recv_ref", "recv_deadline", "recv_timeout", "recv_timeout_none"}

\* the step in which a blocking receive loads the state RECEIVING that a poll
\* left behind together with its Task waker
BlockingBeginsOnReceiving ==
    /\ rop = "idle" /\ state = RECEIVING
    /\ hist.polled /\ waker.w.kind = "Task"
    /\ nops' = nops + 1 \/ rop' # "idle"
    /\ (IF rop' \in {"idle", "gone"} THEN hist'.lastOp ELSE rop') \in Blocking

\* C13: a recv, recv_ref, recv_timeout or recv_deadline that finds the state
\* RECEIVING left by a poll panics in that very step: it does not go on to
\* park, and it leaves the waker slot, the park token and the state as they
\* were.
C13_BlockingAfterPollPanics ==
    [][BlockingBeginsOnReceiving =>
          /\ rop' \in {"idle", "gone"} /\ rpc' = <<>>
          /\ hist'.lastRes = "Panic"
          /\ hist'.lastStart = {RECEIVING}
          /\ waker' = waker /\ token' = token /\ state' = state]_vars

C13_Witness ==
    /\ hist.lastOp \in Blocking \ {"recv"} /\ hist.lastRes = "Panic"
    /\ hist.lastStart = {RECEIVING}
    /\ rop = "idle" /\ state = RECEIVING
    /\ waker.st = "init" /\ waker.w.kind = "Task"

\* the receiver is idle and its last call returned Empty or Timeout
GaveUp(res) == rop = "idle" /\ hist.lastOp # "drop" /\ hist.lastRes = res

NoWakerInstalled == state # RECEIVING /\ waker.st # "init"

\* C14: after a receive call returned Timeout, or try_recv returned Empty
\* having loaded EMPTY, no waker remains installed: the waker slot holds no
\* live waker and the state is not RECEIVING.  (The Empty that try_recv
\* returns on loading the RECEIVING of an earlier poll, lib.rs 343-345, is
\* left aside: there the waker of that poll stays installed on purpose.)
C14_NoWakerAfterEmptyOrTimeout ==
    (GaveUp("Timeout") \/ (GaveUp("Empty") /\ hist.lastStart = {EMPTY}))
        => NoWakerInstalled

\* send began while the receiver was idle, its last call having returned res,
\* and no receive call began before send returned
SentAfter(res) == hist.seq = res /\ SendReturned

\* the first receive call that began after such a send has returned
NextReturnedAfter(res) == SentAfter(res) /\ hist.nextAfter = "done"

\* C15: when a timed receive returned Timeout and the sender then sends v,
\* send's swap observes EMPTY and send returns Ok(()) having invoked no
\* waker, and the next receive call returns v.
C15_TimeoutThenLateSend ==
    /\ SentAfter("Timeout") =>
          /\ sres = "Ok" /\ sobs = {EMPTY}
          /\ hist.wakes = 0 /\ hist.woken = {} /\ sw = NoWaker
    /\ (NextReturnedAfter("Timeout") /\ hist.lastOp # "drop") =>
          (hist.lastRes = "Ok" /\ hist.lastVal = sent)

C15_Witness ==
    /\ NextReturnedAfter("Timeout")
    /\ hist.lastOp = "recv_timeout" /\ hist.lastRes = "Ok"
    /\ hist.lastVal = MaxVal /\ hist.wakes = 0

\* the message is in the slot with the state MESSAGE, or the receiver has
\* seen MESSAGE and is taking, has taken or has dropped the message
MessagePublished ==
    \/ state = MESSAGE
    \/ hist.delivered = 1 \/ hist.msgDrops = 1
    \/ \E i \in 1..Len(rpc) : rpc[i] \in {"take_message", "drop_message"}

\* C16: the sender invokes a waker at most once, and does so exactly when its
\* one swap, in send or in drop, observed RECEIVING; when send returns Ok
\* after observing RECEIVING, the waker invoked is the one that was installed
\* at the swap, and the message is published with the state MESSAGE.
C16_AtMostOneWakeup ==
    /\ hist.wakes <= 1
    /\ sop # "done" => hist.wakes = 0
    /\ sop = "done" => (hist.wakes = 1 <=> sobs = {RECEIVING})
    /\ (SendReturned /\ sres = "Ok" /\ sobs = {RECEIVING}) =>
          /\ hist.woken = {hist.target}
          /\ hist.target.kind \in {"Thread", "Task"}
          /\ MessagePublished

\* C17: when a poll returned Pending and the sender then sends v, send's swap
\* observes RECEIVING, the Task waker that poll installed is woken exactly
\* once, and the next poll returns Ready(Ok(v)).
C17_PollThenSend ==
    /\ SentAfter("Pending") =>
          /\ sres = "Ok" /\ sobs = {RECEIVING}
          /\ hist.wakes = 1 /\ hist.woken = {hist.target}
          /\ hist.target.kind = "Task" /\ hist.target.task \in Tasks
          /\ sw = hist.target
    /\ (NextReturnedAfter("Pending") /\ hist.lastOp = "poll") =>
          (hist.lastRes = "Ok" /\ hist.lastVal = sent)

C17_Witness ==
    /\ NextReturnedAfter("Pending")
    /\ hist.lastOp = "poll" /\ hist.lastRes = "Ok" /\ hist.lastVal = MaxVal
    /\ hist.wakes = 1 /\ hist.target.task = MaxTasks

\* C18: send and Sender's drop never wait and never loop: whatever the
\* receiver is doing, the next step of a running send or drop can be taken,
\* and the whole call takes at most four steps of its own, with one payload
\* write, one swap, at most one waker invocation and at most one free.
C18_ProducerNeverBlocks ==
    /\ spc # <<>> => ENABLED SenderSteps
    /\ sop \in {"send", "drop"} => spc # <<>>
    /\ hist.ssteps <= 4
    /\ hist.ssteps = 0 <=> sop = "none"
    /\ hist.wakes <= 1 /\ hist.sfrees <= 1
    /\ sop = "done" => (spc = <<>> /\ Cardinality(sobs) = 1)

C18_Witness ==
    /\ sop = "done" /\ sent # 0 /\ hist.ssteps = 4 /\ hist.wakes = 1
    /\ rop = "recv_ref" /\ Running("park")

\* the swap of Receiver's drop observed RECEIVING
DroppedOnReceiving == hist.rdropSaw = {RECEIVING}

\* C19: when the swap of Receiver's drop observed RECEIVING, the drop has
\* dropped the waker and freed the control block by the time it returns.
C19_DropOnReceivingFrees ==
    (DroppedOnReceiving /\ rop = "gone") =>
        (waker.st # "init" /\ ~allocated)

\* C19 (amended): when the swap of Receiver's drop observed RECEIVING, the
\* drop has one step left, drop_waker, and does not free the control block:
\* when it returns before the sender has swapped, the waker is dropped and the
\* block still allocated.  The sender's swap then observes DISCONNECTED:
\* Sender's drop frees the block, and send hands it to the SendError it
\* returns.
C19_DropOnReceivingKeepsBlock ==
    /\ (DroppedOnReceiving /\ rop = "drop") => rpc = <<"drop_waker">>
    /\ (DroppedOnReceiving /\ rop = "gone" /\ sop = "none") =>
          /\ waker.st = "dropped"
          /\ allocated /\ hist.frees = 0
          /\ state = DISCONNECTED
    /\ (DroppedOnReceiving /\ sop = "done" /\ sobs = {DISCONNECTED}) =>
          IF sent = 0 THEN ~allocated /\ hist.frees = 1 /\ hist.sfrees = 1
          ELSE sres = "Err" /\ hist.sfrees = 0 /\ (err = "held" => allocated)

C19_Witness ==
    /\ DroppedOnReceiving /\ rop = "gone"
    /\ sop = "done" /\ sent = 0 /\ sobs = {DISCONNECTED}
    /\ hist.sfrees = 1 /\ ~allocated /\ waker.st = "dropped"

\* C20: when the swap of Receiver's drop observed RECEIVING, the waker that
\* was installed is released once, by that drop, and is never invoked: the
\* sender has not taken it and does not take it, and a send or Sender's drop
\* whose swap comes later observes DISCONNECTED and touches no waker.
C20_DropOnReceivingNoWake ==
    DroppedOnReceiving =>
        /\ hist.rdropWaker.st = "init"
        /\ hist.rdropWaker.w \notin hist.woken
        /\ sw # hist.rdropWaker.w
        /\ rop = "gone" => waker.st = "dropped"
        /\ sobs = {DISCONNECTED} => (hist.wakes = 0 /\ sw = NoWaker)

\* the transition table of the state word
LegalTransitions ==
    { <<EMPTY, MESSAGE>>, <<EMPTY, DISCONNECTED>>, <<EMPTY, RECEIVING>>,
      <<RECEIVING, MESSAGE>>, <<RECEIVING, DISCONNECTED>>, <<RECEIVING, EMPTY>>,
      <<MESSAGE, DISCONNECTED>> }

\* send's swap(MESSAGE) after the swap of Receiver's drop: it returns the
\* SendError, and no one reads the state word again
SwapOfFailedSend ==
    /\ hist.rdropSaw # {} /\ sop = "send"
    /\ state = DISCONNECTED /\ state' = MESSAGE

\* C21: every change of the state word is one of the legal transitions, and
\* once the word holds DISCONNECTED no operation changes it; the swap of a
\* send that fails because the receiver is gone is left out of the count.
C21_LegalTransitions ==
    [][state' # state =>
          (<<state, state'>> \in LegalTransitions \/ SwapOfFailedSend)]_vars

\* no call is running on either endpoint and the control block is allocated
Quiescent ==
    /\ rop \in {"idle", "gone"} /\ rpc = <<>>
    /\ sop \in {"none", "done"} /\ spc = <<>>
    /\ allocated

\* C22: while no call is running on either endpoint and the control block is
\* allocated, the payload slot holds a message if and only if the state word
\* is MESSAGE.
C22_PayloadInitIffMessage ==
    Quiescent => (message.st = "init" <=> state = MESSAGE)

C22_Witness ==
    /\ Quiescent /\ state = MESSAGE /\ message.st = "init"
    /\ rop = "idle" /\ hist.lastRes = "Timeout" /\ message.val = MaxVal

\* C23: while no call is running on either endpoint and the control block is
\* allocated, the waker slot holds a live waker if and only if the state word
\* is RECEIVING.
C23_WakerInitIffReceiving ==
    Quiescent => (waker.st = "init" <=> state = RECEIVING)

\* accesses to the waker slot that break its exclusive ownership
WakerViolations ==
    { "live_waker_overwritten",   \* written over a waker nobody consumed
      "waker_data_race",          \* written or dropped while a take is pending
      "read_uninit_waker",        \* taken after it was taken or dropped
      "drop_uninit_waker" }       \* dropped after it was taken or dropped

\* C24: every waker the receiver writes is consumed once and by one party:
\* the sender takes it exactly when its swap observed RECEIVING with that
\* waker installed, otherwise the receiver drops it; no waker is both taken
\* and dropped, none is overwritten while live, and the receiver never writes
\* the slot while the sender's take is pending.
C24_WakerConsumedOnce ==
    /\ ub \cap WakerViolations = {}
    /\ sw # NoWaker => (sobs = {RECEIVING} /\ sw = hist.target)
    /\ (sop = "done" /\ sobs = {RECEIVING}) => sw = hist.target

\* the running receive call or Receiver drop still has to read or drop the
\* payload
PayloadAccessPending ==
    \E i \in 1..Len(rpc) : rpc[i] \in {"take_message", "drop_message"}

\* C25: a receive call or a Receiver drop reads or drops the payload slot
\* only after send wrote the payload and swapped MESSAGE in, and only once:
\* whenever such an access is due, the slot holds the payload that was sent,
\* in an allocated block.
C25_PayloadReadAfterWrite ==
    PayloadAccessPending =>
        /\ message.st = "init" /\ message.val = sent
        /\ sent \in Values /\ sobs # {}
        /\ allocated
        /\ hist.delivered = 0 /\ hist.msgDrops = 0

C25_Witness ==
    /\ Running("take_message") /\ rop = "recv_deadline"
    /\ hist.withdrew = {MESSAGE} /\ message.val = MaxVal

\* C26: no match on the state word takes an unreachable!() arm: neither the
\* sender's swap, which never observes MESSAGE, nor any load, compare-exchange
\* or swap of a receive call.
C26_NoUnreachableArm ==
    /\ sres # "unreachable" /\ MESSAGE \notin sobs
    /\ rres # "unreachable" /\ hist.lastRes # "unreachable"

C26_Witness ==
    /\ hist.lastOp = "poll" /\ hist.lastStart = {RECEIVING}
    /\ hist.lastRes = "Disconnected" /\ sobs = {EMPTY}

\* the step in which a call of try_recv loads the state word
TryRecvBegins ==
    /\ rop = "idle" /\ nops' = nops + 1
    /\ (IF rop' = "idle" THEN hist'.lastOp ELSE rop') = "try_recv"

\* C27: try_recv loads the state word once.  Unless it loaded MESSAGE it
\* returns in that step, Empty or Disconnected, with the state word, both
\* slots and the allocation as they were; having loaded MESSAGE it stores
\* DISCONNECTED, moves the payload out and returns it, and does nothing more.
C27_TryRecvFrame ==
    /\ [][TryRecvBegins =>
            /\ UNCHANGED <<state, message, waker, allocated, token>>
            /\ hist'.frees = hist.frees
            /\ IF state = MESSAGE
               THEN rop' = "try_recv"
                    /\ rpc' = <<"store_disconnected", "take_message">>
               ELSE rop' = "idle" /\ rpc' = <<>>
                    /\ hist'.lastRes = IF state = DISCONNECTED
                                       THEN "Disconnected" ELSE "Empty"]_vars
    /\ [](rop = "try_recv" =>
            /\ hist.startState = {MESSAGE}
            /\ rpc \in { <<"store_disconnected", "take_message">>,
                          <<"take_message">> })
    /\ [](hist.lastOp = "try_recv" =>
            /\ hist.lastRes \in {"Ok", "Empty", "Disconnected"}
            /\ hist.lastRes = "Ok" <=> hist.lastStart = {MESSAGE})

C27_Witness ==
    /\ hist.lastOp = "try_recv" /\ hist.lastRes = "Disconnected"
    /\ rop = "idle" /\ allocated /\ hist.delivered = 1
    /\ state = DISCONNECTED /\ message.st = "moved"

\* the receive operations that borrow the receiver
ByRef ==
    {"try_recv", "recv_ref", "recv_deadline", "recv_timeout",
     "recv_timeout_none", "poll"}

\* C28: a receive through a reference never frees the control block: no
\* dealloc is among the steps of such a call, and when it has returned the
\* message the state is DISCONNECTED and the block is still allocated, to be
\* freed by the Receiver's drop.  The consuming recv frees the block itself
\* when it returns the message.
C28_ByRefNeverFrees ==
    /\ rop \in ByRef => \A i \in 1..Len(rpc) : rpc[i] # "dealloc"
    /\ (rop = "idle" /\ hist.lastOp \in ByRef /\ hist.lastRes = "Ok") =>
          (allocated /\ hist.frees = 0 /\ state = DISCONNECTED)
    /\ (rop = "gone" /\ hist.lastOp = "drop" /\ hist.delivered = 1) =>
          (~allocated /\ hist.frees = 1 /\ hist.rdropSaw = {DISCONNECTED})
    /\ (hist.lastOp = "recv" /\ hist.lastRes = "Ok") =>
          (~allocated /\ hist.frees = 1)

C28_Witness ==
    /\ rop = "gone" /\ hist.lastOp = "drop" /\ hist.delivered = 1
    /\ hist.rdropSaw = {DISCONNECTED} /\ ~allocated /\ hist.frees = 1
    /\ sobs = {RECEIVING}

\* the step in which a receiver that woke from its park loads the state word
\* and finds it still RECEIVING
WokeInReceiving ==
    Running("reload") /\ rpc' # rpc /\ rop' # "crashed" /\ state = RECEIVING

\* C29: a parked receiver that wakes while the state is still RECEIVING goes on
\* waiting: recv and recv_ref park again, recv_deadline goes back to its
\* deadline check.  recv and recv_ref return only Ok, having observed
\* MESSAGE, or Disconnected (or panic on the RECEIVING of a poll), and a timed
\* receive returns Timeout exactly when its swap at the deadline observed
\* RECEIVING.
C29_SpuriousWakeupsTolerated ==
    /\ [][WokeInReceiving =>
            /\ rop' = rop /\ hist'.reparked
            /\ rpc' = IF Impl(rop) = "recv_deadline" THEN <<"loop">>
                      ELSE <<"park", "reload">>
            /\ UNCHANGED <<state, message, waker, allocated>>]_vars
    /\ [](Impl(hist.lastOp) \in {"recv", "recv_ref"} =>
            /\ hist.lastRes \in {"Ok", "Disconnected", "Panic"}
            /\ hist.lastRes = "Panic" <=> hist.lastStart = {RECEIVING}
            /\ hist.lastRes = "Ok" => (hist.lastVal = sent /\ sent \in Values))
    /\ [](Timed(hist.lastOp) =>
            (hist.lastRes = "Timeout" <=> hist.lastWithdrew = {RECEIVING}))

C29_Witness ==
    /\ hist.lastOp = "recv_ref" /\ hist.lastReparked
    /\ hist.lastRes = "Ok" /\ hist.lastVal = MaxVal

\* the running poll found RECEIVING: it replaces the waker of an earlier poll
RePoll == rop = "poll" /\ hist.startState = {RECEIVING}

\* the last call was such a poll and the receiver has been idle since
RePolled(res) ==
    /\ rop = "idle" /\ hist.lastOp = "poll"
    /\ hist.lastStart = {RECEIVING} /\ hist.lastRes = res

\* C30: a poll that finds RECEIVING and whose compare-exchange to EMPTY
\* succeeds drops the old waker, which is live and the receiver's own, and
\* then installs the new one; a send or Sender's drop whose swap observes the
\* RECEIVING of that poll wakes the waker written last.  When the sender's
\* swap lands between the two compare-exchanges, poll returns the sender's
\* outcome and not Pending.
C30_RePollReplacesWaker ==
    /\ (RePoll /\ Running("drop_waker")) =>
          /\ waker.st = "init"
          /\ ~(spc # <<>> /\ Head(spc) = "take_waker")
    /\ (RePoll /\ Running("write_waker")) => waker.st = "dropped"
    /\ (RePolled("Pending") /\ sop = "none") =>
          /\ state = RECEIVING /\ waker.st = "init"
          /\ waker.w.kind = "Task" /\ waker.w.gen = wgen
    /\ (RePolled("Pending") /\ sop = "done" /\ sobs = {RECEIVING}) =>
          \A w \in hist.woken : w.kind = "Task" /\ w.gen = wgen
    /\ (RePolled("Ok") \/ RePolled("Disconnected") \/ RePolled("Pending")) =>
          /\ sobs = {EMPTY} => hist.lastRes # "Pending"
          /\ hist.lastRes = "Ok" => (hist.lastVal = sent /\ sent \in Values)
          /\ hist.lastRes = "Disconnected" => (sobs # {} /\ sent = 0)

====
